---- MODULE Spec2Model ----
(***************************************************************************)
(* gpmerger: grouping of chaptered GoPro MP4 files and orchestration of    *)
(* their concatenation (filetools.py, concattools.py, gpmerger.py).        *)
(*                                                                         *)
(* Strings are sequences of one-character strings, so that slicing,        *)
(* unpacking and int() are computed as Python computes them.               *)
(***************************************************************************)
EXTENDS Integers, Sequences, FiniteSets, TLC

\* ------------------------------------------------------------------ bounds
\* longest file name handed to parse_filename
MaxNameLen == 8
\* longest sequence of file records handed to accumulate_filenumberwise,
\* and most files of a crawled source directory
MaxFiles == 3
\* most calls of concatenate_bulk in a row on one target directory
MaxRuns == 2

VARIABLES
    pc,           \* position of the caller: which call is running / how it ended
    name,         \* parse_filename: the argument
    parsed,       \* parse_filename: the outcome (record returned or exception)
    warned,       \* parse_filename: the warnings issued by warnings.warn
    fileinfos,    \* accumulate_filenumberwise: the argument
    accumulated,  \* accumulate_filenumberwise: the outcome
    accumulated_result,  \* concatenate_bulk: the mapping argument
    force,        \* concatenate_bulk: the force argument
    backend,      \* concatenate_bulk: the backend argument
    target_dir,   \* the target directory: "absent", "file" or "dir"
    fs,           \* the names of the files in the target directory
    manifests,    \* number of temporary manifest files on disk
    i,            \* concatenate_bulk: position of the loop in the mapping
    targets,      \* concatenate_bulk: the local list targets
    retval,       \* concatenate_bulk: the value returned
    exc,          \* the exception that ended the call, or "None"
    log,          \* records emitted on logger 'main.concattools' in this call
    calls,        \* history: backend invocations of this call, in order
    examined,     \* history: groups reached by the loop of this call, in order
    written,      \* history: target files written during this call
    entry_dir,    \* history: target_dir when this call was entered
    run,          \* number of calls of concatenate_bulk started
    prev,         \* history: summary of the call before this one
    args,         \* main: the parsed command line
    videopaths,   \* main: the video files of the source directory, in crawl order
    userinput     \* main: what select_action_cli returned

parsevars == <<name, parsed, fileinfos, accumulated>>
bulkvars == <<accumulated_result, force, backend, target_dir, fs, manifests, i,
              targets, retval, exc, log, calls, examined, written, entry_dir,
              run, prev>>
mainvars == <<args, videopaths, userinput>>
vars == <<pc, warned, parsevars, bulkvars, mainvars>>

\* ----------------------------------------------------------------- strings
\* s[a:b] of Python for 0 <= a <= b (indices from 0, clamped to len(s))
Slice(s, a, b) ==
    LET lo == IF a < Len(s) THEN a ELSE Len(s)
        hi == IF b < Len(s) THEN b ELSE Len(s)
    IN  IF lo >= hi THEN <<>> ELSE SubSeq(s, lo + 1, hi)

\* s[a:] of Python
SliceFrom(s, a) == Slice(s, a, Len(s))

\* str.lower() on the characters the model uses
LowerChar(c) ==
    CASE c = "M" -> "m"
      [] c = "P" -> "p"
      [] c = "G" -> "g"
      [] c = "H" -> "h"
      [] c = "X" -> "x"
      [] OTHER -> c

Lower(s) == [k \in 1..Len(s) |-> LowerChar(s[k])]

\* str.endswith
EndsWith(s, t) ==
    /\ Len(s) >= Len(t)
    /\ SubSeq(s, Len(s) - Len(t) + 1, Len(s)) = t

\* all sequences over S of length at most n
SeqsUpTo(S, n) == UNION {[1..k -> S] : k \in 0..n}

\* ---------------------------------------------------------- parse_filename
\* the value standing for "no value" beside an exception
NoFileInfo ==
    [prefix |-> "", codec |-> "", chapter |-> <<>>, number |-> <<>>, suffix |-> <<>>]

\* the warnings parse_filename issues for the parsed parts
ParseWarnings(prefix, codec, suffix) ==
    (IF prefix # "G" THEN {"prefix"} ELSE {})
    \cup (IF codec \notin {"H", "X"} THEN {"codec"} ELSE {})
    \cup (IF ~EndsWith(Lower(suffix), <<"m", "p", "4">>) THEN {"suffix"} ELSE {})

\* parse_filename with the chapter sliced one character late
parse_filename_shifted(n) ==
    IF Len(n) < 2
    THEN [exc |-> "ValueError", val |-> NoFileInfo, warnings |-> {}]
    ELSE LET stem == SliceFrom(n, 2)
         IN  [exc |-> "None",
              val |-> [prefix |-> n[1], codec |-> n[2], chapter |-> Slice(stem, 1, 3),
                       number |-> Slice(stem, 2, 6), suffix |-> SliceFrom(stem, 6)],
              warnings |-> ParseWarnings(n[1], n[2], SliceFrom(stem, 6))]

\* parse_filename(name): [exc, val, warnings]
\* `prefix, codec, *stem = name` needs two characters at least
parse_filename(n) ==
    IF Len(n) < 2
    THEN [exc |-> "ValueError", val |-> NoFileInfo, warnings |-> {}]
    ELSE LET prefix == n[1]
             codec == n[2]
             stem == SliceFrom(n, 2)
             chapter == Slice(stem, 0, 2)
             number == Slice(stem, 2, 6)
             suffix == SliceFrom(stem, 6)
         IN  [exc |-> "None",
              val |-> [prefix |-> prefix, codec |-> codec, chapter |-> chapter,
                       number |-> number, suffix |-> suffix],
              warnings |-> ParseWarnings(prefix, codec, suffix)]

\* parse_filepath(path): the FileInfo of a path, the parts of its name plus path
\* (only called on names parse_filename accepts)
parse_filepath(p) ==
    LET raw == parse_filename(p).val
    IN  [prefix |-> raw.prefix, codec |-> raw.codec, chapter |-> raw.chapter,
         number |-> raw.number, suffix |-> raw.suffix, path |-> p]

\* -------------------------------------------------------------------- int()
Digits == {"0", "1", "2", "3", "4", "5", "6", "7", "8", "9"}

DigitVal(c) ==
    CASE c = "0" -> 0 [] c = "1" -> 1 [] c = "2" -> 2 [] c = "3" -> 3
      [] c = "4" -> 4 [] c = "5" -> 5 [] c = "6" -> 6 [] c = "7" -> 7
      [] c = "8" -> 8 [] c = "9" -> 9 [] OTHER -> 0

RECURSIVE LStrip(_)
LStrip(s) == IF s # <<>> /\ s[1] = " " THEN LStrip(Tail(s)) ELSE s

RECURSIVE RStrip(_)
RStrip(s) ==
    IF s # <<>> /\ s[Len(s)] = " " THEN RStrip(SubSeq(s, 1, Len(s) - 1)) ELSE s

\* the digits of a literal: digits, with single underscores between digits
IsDigitBody(b) ==
    /\ b # <<>>
    /\ \A k \in 1..Len(b) : b[k] \in Digits \cup {"_"}
    /\ b[1] \in Digits
    /\ b[Len(b)] \in Digits
    /\ \A k \in 1..(Len(b) - 1) : ~(b[k] = "_" /\ b[k + 1] = "_")

RECURSIVE DigitsValue(_, _)
DigitsValue(b, acc) ==
    IF b = <<>> THEN acc
    ELSE IF b[1] = "_" THEN DigitsValue(Tail(b), acc)
    ELSE DigitsValue(Tail(b), 10 * acc + DigitVal(b[1]))

\* int(s) of Python for a str: [exc, val]
PyInt(s) ==
    LET t == RStrip(LStrip(s))
        signed == t # <<>> /\ t[1] \in {"+", "-"}
        body == IF signed THEN Tail(t) ELSE t
        mag == DigitsValue(body, 0)
    IN  IF ~IsDigitBody(body)
        THEN [exc |-> "ValueError", val |-> 0]
        ELSE [exc |-> "None", val |-> IF signed /\ t[1] = "-" THEN 0 - mag ELSE mag]

\* ----------------------------------------------- accumulate_filenumberwise
\* A dict is the sequence of its items, <<key, value>>, in insertion order.
DictKeys(d) == [k \in 1..Len(d) |-> d[k][1]]

HasKey(d, key) == \E k \in 1..Len(d) : d[k][1] = key

DictGet(d, key) == d[CHOOSE k \in 1..Len(d) : d[k][1] = key][2]

\* accumulated_fileinfos[fileinfo.number].append(fileinfo) on a defaultdict(list)
AppendTo(d, fi) ==
    IF HasKey(d, fi.number)
    THEN [k \in 1..Len(d) |->
             IF d[k][1] = fi.number THEN <<d[k][1], Append(d[k][2], fi)>> ELSE d[k]]
    ELSE Append(d, <<fi.number, <<fi>>>>)

RECURSIVE GroupAll(_, _)
GroupAll(fis, d) ==
    IF fis = <<>> THEN d ELSE GroupAll(Tail(fis), AppendTo(d, Head(fis)))

\* the sort key of list.sort(key=lambda elem: int(elem.chapter))
ChapterKey(fi) == PyInt(fi.chapter).val

\* insertion of an element in front of the elements with an equal key
RECURSIVE InsertSortedUnstable(_, _)
InsertSortedUnstable(sorted, fi) ==
    IF sorted = <<>> THEN <<fi>>
    ELSE IF ChapterKey(Head(sorted)) < ChapterKey(fi)
         THEN <<Head(sorted)>> \o InsertSortedUnstable(Tail(sorted), fi)
         ELSE <<fi>> \o sorted

\* insertion of an element behind every element whose key is not greater
RECURSIVE InsertSorted(_, _)
InsertSorted(sorted, fi) ==
    IF sorted = <<>> THEN <<fi>>
    ELSE IF ChapterKey(Head(sorted)) <= ChapterKey(fi)
         THEN <<Head(sorted)>> \o InsertSorted(Tail(sorted), fi)
         ELSE <<fi>> \o sorted

\* list.sort is stable: equal keys keep their order
RECURSIVE SortChapters(_, _)
SortChapters(chapters, sorted) ==
    IF chapters = <<>> THEN sorted
    ELSE SortChapters(Tail(chapters), InsertSorted(sorted, Head(chapters)))

\* the key function is evaluated for every element of every list
KeysParse(d) ==
    \A k \in 1..Len(d) : \A j \in 1..Len(d[k][2]) :
        PyInt(d[k][2][j].chapter).exc = "None"

\* accumulate_filenumberwise(fileinfos): [exc, val]
accumulate_filenumberwise(fis) ==
    LET grouped == GroupAll(fis, <<>>)
    IN  IF ~KeysParse(grouped)
        THEN [exc |-> "ValueError", val |-> <<>>]
        ELSE [exc |-> "None",
              val |-> [k \in 1..Len(grouped) |->
                          <<grouped[k][1], SortChapters(grouped[k][2], <<>>)>>]]

\* ------------------------------------------------------ concatenation backend
\* the members of enum ConcatBackend
KnownBackends == {"MP4MERGE", "FFMPEG"}

\* what an external process run can do: exit 0 with the output written, exit
\* non-zero without output, or fail to start (subprocess.run raises OSError)
ProcessOutcomes == {"ok", "failed", "oserror"}

\* manifests left on disk by one invocation: concatenate_ffmpeg creates its
\* playlist with NamedTemporaryFile(delete=False) and never unlinks it;
\* concatenate_mp4merge creates none
ManifestsLeft(b) == IF b = "FFMPEG" THEN 1 ELSE 0

\* the returncode of the CompletedProcess
ReturnCode(outcome) == IF outcome = "ok" THEN 0 ELSE 1

\* ------------------------------------------------------------ concatenate_bulk
ConcatenatedPrefix == <<"c", "o", "n", "c", "a", "t", "e", "n", "a", "t", "e", "d">>

\* target_directory / f'{prefix}-{filenumber}.mp4'
TargetPath(filenumber) ==
    ConcatenatedPrefix \o <<"-">> \o filenumber \o <<".", "m", "p", "4">>

\* target.exists()
TargetExists(target) == target_dir = "dir" /\ target \in fs

\* the skip test with the sense of force inverted
ShouldSkipInverted(exists, f) == exists /\ f

\* the skip test without the force branch
ShouldSkipIgnoringForce(exists, f) == exists

\* the branch `if target.exists(): if force: ... else: ... continue`
ShouldSkip(exists, f) == exists /\ ~f

\* paths = [file.path for file in subfiles]
PathsOf(subfiles) == [k \in 1..Len(subfiles) |-> subfiles[k].path]

NoReturn == [returned |-> FALSE, targets |-> <<>>]

NoPrev ==
    [valid |-> FALSE, returned |-> FALSE, force |-> FALSE, backend |-> "", fs |-> {},
     nwritten |-> 0]

\* lines 123-135: the call up to the loop
EnterBulk(acc, f, b) ==
    /\ accumulated_result' = acc
    /\ force' = f
    /\ backend' = b
    /\ entry_dir' = target_dir
    /\ i' = 1
    /\ targets' = <<>>
    /\ calls' = <<>>
    /\ examined' = <<>>
    /\ written' = {}
    /\ log' = <<>>
    /\ retval' = NoReturn
    /\ warned' = IF target_dir # "dir" THEN {"not a directory"} ELSE {}
    /\ IF target_dir = "file"
       THEN \* mkdir on the path of a file
            /\ target_dir' = target_dir
            /\ pc' = "raised"
            /\ exc' = "FileExistsError"
       ELSE /\ target_dir' = "dir"
            /\ IF b \notin KnownBackends
               THEN pc' = "raised" /\ exc' = "KeyError"
               ELSE pc' = "loop" /\ exc' = "None"
    /\ UNCHANGED <<fs, manifests>>

\* a call of concatenate_bulk by a caller of the module
CallBulk ==
    /\ pc \in {"idle", "done", "raised"}
    /\ run < MaxRuns
    /\ run' = run + 1
    /\ prev' = IF pc = "idle" THEN NoPrev
               ELSE [valid |-> TRUE, returned |-> pc = "done", force |-> force,
                     backend |-> backend, fs |-> fs, nwritten |-> Cardinality(written)]
    /\ \E f \in BOOLEAN, b \in KnownBackends \cup {"bogus"} :
           EnterBulk(accumulated_result, f, b)
    /\ UNCHANGED <<parsevars, mainvars>>

\* one pass of the loop that ends in `continue`
BulkSkip ==
    /\ pc = "loop"
    /\ i <= Len(accumulated_result)
    /\ LET filenumber == accumulated_result[i][1]
           target == TargetPath(filenumber)
       IN  /\ ShouldSkip(TargetExists(target), force)
           /\ log' = Append(log, [level |-> "WARNING", event |-> "skipping", target |-> target])
           /\ examined' = Append(examined, [number |-> filenumber,
                                         existed |-> TargetExists(target)])
    /\ i' = i + 1
    /\ UNCHANGED <<pc, warned, parsevars, mainvars, accumulated_result, force, backend,
                   target_dir, fs, manifests, targets, retval, exc, calls, written,
                   entry_dir, run, prev>>

\* one pass of the loop that invokes the backend
BulkConcatenate ==
    /\ pc = "loop"
    /\ i <= Len(accumulated_result)
    /\ LET filenumber == accumulated_result[i][1]
           subfiles == accumulated_result[i][2]
           target == TargetPath(filenumber)
           exists == TargetExists(target)
           log1 == IF exists
                   THEN Append(log, [level |-> "INFO", event |-> "overwriting", target |-> target])
                   ELSE log
       IN  /\ ~ShouldSkip(exists, force)
           /\ examined' = Append(examined, [number |-> filenumber, existed |-> exists])
           /\ targets' = Append(targets, target)
           /\ \E outcome \in ProcessOutcomes :
                /\ calls' = Append(calls, [number |-> filenumber, target |-> target,
                                           paths |-> PathsOf(subfiles), outcome |-> outcome,
                                           returncode |-> ReturnCode(outcome)])
                /\ manifests' = manifests + ManifestsLeft(backend)
                /\ fs' = IF outcome = "ok" THEN fs \cup {target} ELSE fs
                /\ written' = IF outcome = "ok" THEN written \cup {target} ELSE written
                /\ IF outcome = "oserror"
                   THEN /\ pc' = "raised"
                        /\ exc' = "OSError"
                        /\ log' = log1
                        /\ i' = i
                   ELSE /\ pc' = pc
                        /\ exc' = exc
                        /\ log' = Append(log1, [level |-> "DEBUG",
                                                event |-> "successfully concatenated",
                                                target |-> target])
                        /\ i' = i + 1
    /\ UNCHANGED <<warned, parsevars, mainvars, accumulated_result, force, backend,
                   target_dir, retval, entry_dir, run, prev>>

\* lines 156-157: return (delta, targets)
BulkReturn ==
    /\ pc = "loop"
    /\ i > Len(accumulated_result)
    /\ pc' = "done"
    /\ retval' = [returned |-> TRUE, targets |-> targets]
    /\ UNCHANGED <<warned, parsevars, mainvars, accumulated_result, force, backend,
                   target_dir, fs, manifests, i, targets, exc, log, calls, examined,
                   written, entry_dir, run, prev>>

\* ------------------------------------------------------------------ gpmerger
\* ConcatBackend(value): the member with that value, or ValueError
ConcatBackendOf(value) ==
    CASE value = "mp4merge" -> [exc |-> "None", val |-> "MP4MERGE"]
      [] value = "ffmpeg" -> [exc |-> "None", val |-> "FFMPEG"]
      [] OTHER -> [exc |-> "ValueError", val |-> ""]

\* choices=['mp4merge', 'ffmpeg'] of the --backend argument
BackendChoices == {"mp4merge", "ffmpeg"}

TokenA == <<"a">>
TokenAbort == <<"a", "b", "o", "r", "t">>
TokenAll == <<"a", "l", "l">>

\* set(xs) of a list
ToSet(xs) == {xs[k] : k \in 1..Len(xs)}

\* select_action_cli, from the words of the line read: False, True or the words
select_action_cli(words) ==
    IF TokenA \in ToSet(words) \/ TokenAbort \in ToSet(words)
    THEN [kind |-> "False", words |-> <<>>]
    ELSE IF TokenAll \in ToSet(words)
         THEN [kind |-> "True", words |-> <<>>]
         ELSE [kind |-> "list", words |-> words]

\* sieve(candidates, desired): the three sets, before list() orders them
sieve(candidates, desired) ==
    IF TokenAll \in desired
    THEN [selected |-> candidates, deselected |-> {}, futile |-> desired \ {TokenAll}]
    ELSE [selected |-> candidates \cap desired,
          deselected |-> candidates \ desired,
          futile |-> desired \ candidates]

\* the lists list(s) can be: a set of str iterates in an order that depends on
\* the hash seed of the process
ListsOf(S) ==
    {xs \in [1..Cardinality(S) -> S] : \A a, b \in 1..Cardinality(S) : xs[a] = xs[b] => a = b}

\* {key : accumulated[key] for key in selected}
SelectItems(acc, selected) ==
    [k \in 1..Len(selected) |-> <<selected[k], DictGet(acc, selected[k])>>]

\* [parse_filepath(p) for p in videopaths]
ParseAll(paths) == [k \in 1..Len(paths) |-> parse_filepath(paths[k])]

AllParse(paths) == \A k \in 1..Len(paths) : parse_filename(paths[k]).exc = "None"

\* main() from its start to the call of concatenate_bulk or of input()
MainStart ==
    /\ pc = "main"
    /\ \E fflag \in BOOLEAN, yflag \in BOOLEAN, b \in BackendChoices \cup {"bogus"} :
        /\ args' = [force |-> fflag, yes |-> yflag, backend |-> b]
        /\ IF b \notin BackendChoices
           THEN \* parse_args rejects the value and exits
                /\ pc' = "exit"
                /\ exc' = "SystemExit"
                /\ UNCHANGED <<warned, fileinfos, accumulated, accumulated_result, force,
                               backend, target_dir, fs, manifests, i, targets, retval,
                               log, calls, examined, written, entry_dir>>
           ELSE IF ~AllParse(videopaths)
           THEN /\ pc' = "raised"
                /\ exc' = "ValueError"
                /\ UNCHANGED <<warned, fileinfos, accumulated, accumulated_result, force,
                               backend, target_dir, fs, manifests, i, targets, retval,
                               log, calls, examined, written, entry_dir>>
           ELSE /\ fileinfos' = ParseAll(videopaths)
                /\ accumulated' = accumulate_filenumberwise(fileinfos')
                /\ IF accumulated'.exc # "None"
                   THEN /\ pc' = "raised"
                        /\ exc' = accumulated'.exc
                        /\ UNCHANGED <<warned, accumulated_result, force, backend,
                                       target_dir, fs, manifests, i, targets, retval,
                                       log, calls, examined, written, entry_dir>>
                   ELSE IF yflag
                   THEN EnterBulk(accumulated'.val, FALSE, ConcatBackendOf(b).val)
                   ELSE /\ pc' = "select"
                        /\ UNCHANGED <<warned, accumulated_result, force, backend,
                                       target_dir, fs, manifests, i, targets, retval,
                                       exc, log, calls, examined, written, entry_dir>>
    /\ UNCHANGED <<name, parsed, videopaths, userinput, run, prev>>

\* the words a user can type
InputWords ==
    {TokenA, TokenAll, <<"0", "0", "4", "2">>, <<"0", "0", "9", "9">>, <<"0", "0", "0", "7">>}

\* most words in one line of input
MaxWords == 2

\* main() from the return of input() to the call of concatenate_bulk
MainSelect ==
    /\ pc = "select"
    /\ \E words \in SeqsUpTo(InputWords, MaxWords) \ {<<>>} :
        LET answer == select_action_cli(words)
            candidates == ToSet(DictKeys(accumulated.val))
            filenumbers == IF answer.kind = "True" THEN candidates ELSE ToSet(answer.words)
            sieveresult == sieve(candidates, filenumbers)
        IN  /\ userinput' = answer
            /\ IF answer.kind = "False"
               THEN \* sys.exit('Aborting merging process')
                    /\ pc' = "exit"
                    /\ exc' = "SystemExit"
                    /\ UNCHANGED <<warned, accumulated_result, force, backend, target_dir,
                                   fs, manifests, i, targets, retval, log, calls,
                                   examined, written, entry_dir>>
               ELSE \E selected \in ListsOf(sieveresult.selected) :
                        EnterBulk(SelectItems(accumulated.val, selected), FALSE,
                                  ConcatBackendOf(args.backend).val)
    /\ UNCHANGED <<parsevars, args, videopaths, run, prev>>

\* main() after concatenate_bulk returned: the summary, return None
MainSummary ==
    /\ pc = "done"
    /\ pc' = "exit"
    /\ UNCHANGED <<warned, parsevars, bulkvars, mainvars>>

\* ------------------------------------------------------------ parse actions
ParseFilename ==
    /\ pc = "parse"
    /\ parsed' = parse_filename(name)
    /\ warned' = parsed'.warnings
    /\ pc' = IF parsed'.exc = "None" THEN "parsed" ELSE "raised"
    /\ UNCHANGED <<name, fileinfos, accumulated, bulkvars, mainvars>>

AccumulateFilenumberwise ==
    /\ pc = "accumulate"
    /\ accumulated' = accumulate_filenumberwise(fileinfos)
    /\ pc' = IF accumulated'.exc = "None" THEN "accumulated" ELSE "raised"
    /\ UNCHANGED <<warned, name, parsed, fileinfos, bulkvars, mainvars>>

\* ------------------------------------------------------------------- inputs
\* a name of the GoPro scheme: prefix, codec, chapter, number, extension
GoProName(codec, chapter, number) ==
    <<"G", codec>> \o chapter \o number \o <<".", "M", "P", "4">>

N0042 == <<"0", "0", "4", "2">>
N0099 == <<"0", "0", "9", "9">>
N0007 == <<"0", "0", "0", "7">>

\* video files of a source directory: chapters of two recordings, and a video
\* that is not of the scheme
GoodNames ==
    {GoProName("H", <<"0", "1">>, N0042), GoProName("H", <<"0", "2">>, N0042),
     GoProName("H", <<"0", "1">>, N0099), GoProName("H", <<"0", "1">>, N0007)}

OtherVideo == <<"c", "l", "i", "p", ".", "m", "p", "4">>

\* the orders in which a directory of at most n of the files S can be listed
Listings(S, n) ==
    {xs \in SeqsUpTo(S, n) : \A a, b \in 1..Len(xs) : xs[a] = xs[b] => a = b}

\* names for parse_filename: every short string over a few characters, and
\* names of the scheme
NameChars == {"G", "H", "1"}

ParseNames == SeqsUpTo(NameChars, MaxNameLen) \cup GoodNames \cup {OtherVideo}

\* names whose records are handed to accumulate_filenumberwise: two codecs,
\* chapters that int() accepts and one it rejects, two recordings, short names
AccChapters == {<<"0", "1">>, <<"0", "2">>, <<"+", "1">>, <<"1", "x">>}

AccNames ==
    {GoProName(c, ch, n) : c \in {"H", "X"}, ch \in AccChapters, n \in {N0042, N0099}}
    \cup {<<"G", "H">>, <<"G", "H", "1">>, <<"G", "H", "0", "1">>}

AccRecords == {parse_filepath(n) : n \in AccNames}

\* the mappings handed to concatenate_bulk
BulkInputs ==
    {accumulate_filenumberwise(ParseAll(paths)).val : paths \in Listings(GoodNames, MaxFiles)}

NoAccumulated == [exc |-> "None", val |-> <<>>]
NoParsed == [exc |-> "None", val |-> NoFileInfo, warnings |-> {}]
NoAnswer == [kind |-> "none", words |-> <<>>]
NoArgs == [force |-> FALSE, yes |-> FALSE, backend |-> ""]

\* the target directory before the first call
InitTarget ==
    /\ target_dir \in {"absent", "file", "dir"}
    /\ fs \in SUBSET {TargetPath(N0042), TargetPath(N0099), TargetPath(N0007)}
    /\ target_dir # "dir" => fs = {}
    /\ manifests = 0

InitIdleBulk ==
    /\ force = FALSE
    /\ backend = ""
    /\ i = 1
    /\ targets = <<>>
    /\ retval = NoReturn
    /\ exc = "None"
    /\ log = <<>>
    /\ calls = <<>>
    /\ examined = <<>>
    /\ written = {}
    /\ entry_dir = target_dir
    /\ run = 0
    /\ prev = NoPrev

InitIdleParse ==
    /\ name = <<>>
    /\ parsed = NoParsed
    /\ fileinfos = <<>>
    /\ accumulated = NoAccumulated

InitIdleMain ==
    /\ args = NoArgs
    /\ videopaths = <<>>
    /\ userinput = NoAnswer

\* ----------------------------------------------------------- specifications
\* calls of concatenate_bulk, one after another, on one target directory
Init ==
    /\ pc = "idle"
    /\ warned = {}
    /\ InitIdleParse
    /\ InitIdleMain
    /\ InitTarget
    /\ accumulated_result \in BulkInputs
    /\ InitIdleBulk

Next == CallBulk \/ BulkSkip \/ BulkConcatenate \/ BulkReturn

Spec == Init /\ [][Next]_vars

\* one run of main()
InitMain ==
    /\ pc = "main"
    /\ warned = {}
    /\ InitIdleParse
    /\ args = NoArgs
    /\ userinput = NoAnswer
    /\ videopaths \in Listings(GoodNames \cup {OtherVideo}, MaxFiles)
    /\ InitTarget
    /\ accumulated_result = <<>>
    /\ InitIdleBulk

NextMain ==
    MainStart \/ MainSelect \/ BulkSkip \/ BulkConcatenate \/ BulkReturn \/ MainSummary

SpecMain == InitMain /\ [][NextMain]_vars

\* parse_filename on one name
InitParse ==
    /\ pc = "parse"
    /\ warned = {}
    /\ name \in ParseNames
    /\ parsed = NoParsed
    /\ fileinfos = <<>>
    /\ accumulated = NoAccumulated
    /\ InitIdleMain
    /\ target_dir = "absent"
    /\ fs = {}
    /\ manifests = 0
    /\ accumulated_result = <<>>
    /\ InitIdleBulk

NextParse == ParseFilename

SpecParse == InitParse /\ [][NextParse]_vars

\* accumulate_filenumberwise on one sequence of records
InitAccumulate ==
    /\ pc = "accumulate"
    /\ warned = {}
    /\ name = <<>>
    /\ parsed = NoParsed
    /\ fileinfos \in SeqsUpTo(AccRecords, MaxFiles)
    /\ accumulated = NoAccumulated
    /\ InitIdleMain
    /\ target_dir = "absent"
    /\ fs = {}
    /\ manifests = 0
    /\ accumulated_result = <<>>
    /\ InitIdleBulk

NextAccumulate == AccumulateFilenumberwise

SpecAccumulate == InitAccumulate /\ [][NextAccumulate]_vars

\* ==================================================================== claims
InSeq(x, xs) == \E k \in 1..Len(xs) : xs[k] = x

Invoked(filenumber) == \E k \in 1..Len(calls) : calls[k].number = filenumber

\* this call follows a call with force=False that returned, on the same groups
\* and target directory, and has force=False itself
SecondRunNoForce == prev.valid /\ prev.returned /\ ~prev.force /\ ~force

\* the call made nothing: no produced path, no backend invocation, no file written
NothingProduced ==
    /\ targets = <<>>
    /\ calls = <<>>
    /\ written = {}
    /\ fs = prev.fs
    /\ pc = "done" =>
         /\ retval.targets = <<>>
         /\ Len(examined) = Len(accumulated_result)
         /\ \A k \in 1..Len(examined) : examined[k].existed

\* C1 as stated: a second call of concatenate_bulk with force=False, after a
\* first one with force=False that returned, on the same groups and target
\* directory, produces no path, invokes the backend for no group and alters no
\* file.
C1_IdempotentAsStated == SecondRunNoForce => NothingProduced

\* C1 (amended): a second call of concatenate_bulk with force=False, after a
\* first one with force=False that returned and after which the target file of
\* every group exists, on the same groups and target directory, returns an empty
\* produced-paths list with every group skipped, invokes the backend for no
\* group and alters no file.
C1_IdempotentWhenAllProduced ==
    (/\ SecondRunNoForce
     /\ \A k \in 1..Len(accumulated_result) :
            TargetPath(accumulated_result[k][1]) \in prev.fs)
    => NothingProduced

\* a second call returned after a first one that wrote the files of two groups
C1_Witness ==
    /\ SecondRunNoForce
    /\ pc = "done"
    /\ prev.nwritten >= 2
    /\ \A k \in 1..Len(accumulated_result) :
           TargetPath(accumulated_result[k][1]) \in prev.fs
    /\ retval.targets = <<>>

\* C2: every group the loop reached has its target in the produced paths, and
\* was handed to the backend, exactly if its target did not exist when it was
\* reached or force is true; groups are reached in the order of the mapping, a
\* skip never ends the call (only a backend that cannot be started does), and
\* a call that returns has reached every group and returns the produced paths.
C2_SkipPolicy ==
    /\ Len(examined) <= Len(accumulated_result)
    /\ \A k \in 1..Len(examined) :
        LET e == examined[k]
        IN  /\ e.number = accumulated_result[k][1]
            /\ InSeq(TargetPath(e.number), targets) <=> (~e.existed \/ force)
            /\ Invoked(e.number) <=> (~e.existed \/ force)
    /\ pc = "done" =>
         /\ Len(examined) = Len(accumulated_result)
         /\ retval.targets = targets
    /\ (pc = "raised" /\ examined # <<>>) =>
         /\ calls # <<>>
         /\ calls[Len(calls)].number = examined[Len(examined)].number
         /\ calls[Len(calls)].outcome = "oserror"

\* a call without force returned after skipping a group and then handing a
\* later group to the backend
C2_Witness ==
    /\ pc = "done"
    /\ ~force
    /\ \E k \in 1..Len(examined) : \E j \in (k + 1)..Len(examined) :
           /\ examined[k].existed
           /\ ~Invoked(examined[k].number)
           /\ ~examined[j].existed
           /\ Invoked(examined[j].number)

\* C3: when main is run with --force, a group whose target file exists when it
\* is reached is handed to the backend and its target is in the produced paths.
C3_ForceFlagOverwrites ==
    \A k \in 1..Len(examined) :
        (args.force /\ examined[k].existed) =>
            /\ Invoked(examined[k].number)
            /\ InSeq(TargetPath(examined[k].number), targets)

\* every member of a group carries the key, and the chapters do not decrease
GroupsWellFormed(d) ==
    \A k \in 1..Len(d) :
        /\ \A j \in 1..Len(d[k][2]) : d[k][2][j].number = d[k][1]
        /\ \A j \in 1..(Len(d[k][2]) - 1) :
               PyInt(d[k][2][j].chapter).val <= PyInt(d[k][2][j + 1].chapter).val

\* C4: accumulate_filenumberwise fails for no sequence of records, and in the
\* mapping it returns every member of a group has the number of the key and
\* the chapters of a group are in non-decreasing order of int(chapter).
C4_AccumulateNeverFails ==
    pc # "accumulate" =>
        /\ accumulated.exc = "None"
        /\ GroupsWellFormed(accumulated.val)

\* C5: a backend invocation that fails (non-zero exit, no output, or a process
\* that cannot be started) does not end the call: the loop goes on and the call
\* returns its summary.
C5_FailureIsolated ==
    \A k \in 1..Len(calls) : calls[k].outcome # "ok" => pc # "raised"

\* C6: a backend invocation that returned a failure is reported as a failure,
\* is not reported as concatenated, and its target is not in the returned
\* produced paths.
C6_FailureVisible ==
    \A k \in 1..Len(calls) :
        (calls[k].outcome = "failed" /\ calls[k].returncode # 0) =>
            /\ \E r \in 1..Len(log) :
                   /\ log[r].target = calls[k].target
                   /\ log[r].event = "failed"
            /\ ~\E r \in 1..Len(log) :
                   /\ log[r].target = calls[k].target
                   /\ log[r].event = "successfully concatenated"
            /\ pc = "done" => ~InSeq(calls[k].target, retval.targets)

\* C7: a call with an unknown backend has changed nothing on the file system
\* when the error for the backend is raised: the target directory is as it was.
C7_InvalidBackendBeforeMutation ==
    exc = "KeyError" =>
        /\ target_dir = entry_dir
        /\ calls = <<>>
        /\ written = {}

\* position of a key in the keys of a dict
KeyIndex(d, key) == CHOOSE k \in 1..Len(d) : d[k][1] = key

\* C8: in every run of main the backend invocations, and the produced paths,
\* follow the order in which the recording numbers were first seen by
\* accumulate_filenumberwise.
C8_FirstSeenOrder ==
    /\ \A a, b \in 1..Len(calls) :
           a < b => KeyIndex(accumulated.val, calls[a].number)
                        < KeyIndex(accumulated.val, calls[b].number)
    /\ \A a, b \in 1..Len(targets) :
           a < b => \E ka, kb \in 1..Len(accumulated.val) :
                       /\ ka < kb
                       /\ targets[a] = TargetPath(accumulated.val[ka][1])
                       /\ targets[b] = TargetPath(accumulated.val[kb][1])

\* C9: no manifest written by concatenate_ffmpeg is on disk after an invocation.
C9_NoManifestLeft == manifests = 0

\* what C10 says of a name that was parsed: no exception, and chapter, number
\* and suffix are the characters at 2-3, 4-7 and from 8 on
ParsedLeniently ==
    /\ parsed.exc = "None"
    /\ parsed.val.chapter = Slice(name, 2, 4)
    /\ parsed.val.number = Slice(name, 4, 8)
    /\ parsed.val.suffix = SliceFrom(name, 8)

WithNumber(xs, n) ==
    LET Carries(fi) == fi.number = n
    IN  SelectSeq(xs, Carries)

\* the records of xs whose int(chapter) is v, in the order of xs
WithChapterValue(xs, v) ==
    LET Ties(fi) == ChapterKey(fi) = v
    IN  SelectSeq(xs, Ties)

\* how often the record r occurs in xs
Occurrences(xs, r) == Cardinality({k \in 1..Len(xs) : xs[k] = r})

\* C11: in the mapping accumulate_filenumberwise returns, the keys are the
\* numbers of the input records, each once; the list of a group is a
\* permutation of the input records that carry its number, every record as
\* often as in the input; and the records of a group with equal int(chapter)
\* are in the order they have in the input.
C11_KeepsAllStable ==
    pc = "accumulated" =>
        LET d == accumulated.val
        IN  /\ ToSet(DictKeys(d)) = {fileinfos[k].number : k \in 1..Len(fileinfos)}
            /\ \A a, b \in 1..Len(d) : d[a][1] = d[b][1] => a = b
            /\ \A k \in 1..Len(d) :
                LET given == WithNumber(fileinfos, d[k][1])
                IN  /\ Len(d[k][2]) = Len(given)
                    /\ \A r \in ToSet(given) \cup ToSet(d[k][2]) :
                           Occurrences(d[k][2], r) = Occurrences(given, r)
                    /\ \A j \in 1..Len(given) :
                           WithChapterValue(d[k][2], ChapterKey(given[j]))
                               = WithChapterValue(given, ChapterKey(given[j]))

\* a sequence was accumulated in which the sort moved a record of a group and
\* the group holds two different records with equal int(chapter)
C11_Witness ==
    /\ pc = "accumulated"
    /\ \E k \in 1..Len(accumulated.val) :
        LET g == accumulated.val[k][2]
        IN  /\ g # WithNumber(fileinfos, accumulated.val[k][1])
            /\ \E a, b \in 1..Len(g) :
                   /\ a < b
                   /\ g[a] # g[b]
                   /\ ChapterKey(g[a]) = ChapterKey(g[b])

\* a sequence with the same record twice was accumulated
C11_DuplicateKept ==
    /\ pc = "accumulated"
    /\ \E a, b \in 1..Len(fileinfos) : a < b /\ fileinfos[a] = fileinfos[b]

====
